---- MODULE Spec2Model ----
(***************************************************************************)
(* A model of the xcmpt entity-component store: the generational entity    *)
(* table of ECS (src/src/ecs.rs), the type-erased component buffers of     *)
(* ComponentMap / ComponentArray (src/src/storage.rs), and the counting    *)
(* destructor of ecs.rs test::drop.  Indices are 0-based as in the source: *)
(* a Vec or buffer of length n is a function over 0..n-1.                  *)
(***************************************************************************)
EXTENDS Integers, Sequences, FiniteSets, TLC

\* ---------------------------------------------------------------- bounds
\* largest capacity of a store, at construction or after growth
MaxCap == 4
\* largest number of elements of the entity table and of all component
\* buffers together: capacity * (1 + number of registered types)
MaxCells == 6
\* largest number of allocations of an index that was allocated before
MaxReuse == 1
\* number of component values constructed (calls of add_component)
MaxAdds == 2

\* largest size in bytes of a component type whose slot layout is computed
MaxSize == 16
\* largest slot index whose address is computed
MaxIndex == 3

Types == {"A", "B"}
\* component payloads (ecs.rs test::component_basic stores 128, then 72)
Values == {72, 128}
None == "None"
\* the growth policies installed with set_grow_fn (ecs.rs test::grow_fn doubles)
Policies == {"double"}

VARIABLES
    capacity,      \* ECS.capacity
    entity_count,  \* ECS.entity_count
    grow_fn,       \* ECS.grow_fn : None or a policy
    entities,      \* ECS.entities : Vec<Entity>
    components,    \* ECS.components.map : ComponentID -> ComponentArray
    status,        \* "live", "panicked" (an operation panicked), "dropped"
    issued,        \* every EntityID returned by create_entity so far
    destroyed,     \* every EntityID of this store destroy_entity was called with
    constructed,   \* number of component values constructed so far
    DROP_COUNT,    \* number of runs of a component value's destructor
    last,          \* the last operation, its arguments and its result
    probe          \* a ComponentInfo computed for a component type, and the
                   \* offsets of one slot of a buffer of that type

\* the variables of a store
ecs_vars == <<capacity, entity_count, grow_fn, entities, components, status,
              issued, destroyed, constructed, DROP_COUNT, last>>

vars == <<capacity, entity_count, grow_fn, entities, components, status,
          issued, destroyed, constructed, DROP_COUNT, last, probe>>

\* ------------------------------------------------------------ data types
scene_id == 1

Entity(a, g) == [alive |-> a, generation |-> g]

EntityID(i, g) == [scene_id |-> scene_id, index |-> i, generation |-> g]

NoEntity == [scene_id |-> 0, index |-> 0, generation |-> 0]

\* RuntimeID::new() of a second ECS: every store has an id of its own
other_scene_id == 2

\* handles a second store has issued: one at index 0 with generation 1, as
\* this store's first handle, and one at an index this store never has
OtherStore ==
    {[scene_id |-> other_scene_id, index |-> i, generation |-> 1] : i \in {0, MaxCap}}

\* Slot<C>: the tag byte, and the payload when filled
Empty == [tag |-> 0, val |-> 0]

Filled(v) == [tag |-> 1, val |-> v]

is_filled(slot) == slot.tag # 0

\* 0 stands for the None of Option<&C>
as_option(slot) == IF slot.tag = 0 THEN 0 ELSE slot.val

\* mutant of VecResize: the records before the resize are lost
VecResize_clears(vec, n, fill) == [i \in 0..(n - 1) |-> fill]

\* Vec::resize(n, fill)
VecResize(vec, n, fill) ==
    [i \in 0..(n - 1) |-> IF i \in DOMAIN vec THEN vec[i] ELSE fill]

VecLen(vec) == Cardinality(DOMAIN vec)

Min(S) == CHOOSE x \in S : \A y \in S : x <= y

\* ---------------------------------------------------------- ComponentInfo
\* the alignments of the component types explored
Aligns == {1, 2, 4, 8}

\* size_of::<C>() and align_of::<C>() of the component types explored: the
\* size of a Rust type is a multiple of its alignment
ComponentLayouts ==
    {c \in [size : 0..MaxSize, align : Aligns] : c.size % c.align = 0}

RoundUp(n, a) == ((n + a - 1) \div a) * a

\* Layout::new::<Slot<C>>() for the #[repr(u8)] enum Slot<C>: the u8 tag at
\* offset 0, the payload of Some(C) at the next offset aligned for C, and
\* the size rounded up to the alignment
Slot_layout(c) ==
    LET payload == RoundUp(1, c.align)
    IN  [size |-> RoundUp(payload + c.size, c.align), align |-> c.align]

\* mutant of ComponentInfo_new: the padding is added also when the size is
\* already a multiple of the alignment
ComponentInfo_new_pads_always(c) ==
    LET layout == Slot_layout(c)
    IN  [layout |-> layout,
         stride |-> layout.size + (layout.align - (layout.size % layout.align))]

\* ComponentInfo::new::<C>(): stride = layout.size() + (layout.size() % layout.align())
ComponentInfo_new(c) ==
    LET layout == Slot_layout(c)
    IN  [layout |-> layout,
         stride |-> layout.size + (layout.size % layout.align)]

\* ComponentArray::delete_index: ptr = array + index * stride, as an offset
\* from the start of the buffer (alloc_zeroed returns it aligned)
delete_index_ptr(info, index) == index * info.stride

\* get_slice / get_slice_mut: element index of the view &[Slot<C>] lies
\* index * size_of::<Slot<C>>() bytes from the start of the buffer
get_slice_ptr(info, index) == index * info.layout.size

\* no ComponentInfo computed yet
NoProbe == [pc |-> "none"]

\* --------------------------------------------------------- ComponentArray
\* alloc_zeroed: every slot of a new buffer has tag 0
ComponentArray_new(length) ==
    [length |-> length, array |-> [i \in 0..(length - 1) |-> Empty]]

\* mutant of ComponentArray_resize: the old region is not copied
ComponentArray_resize_no_copy(ca, new_length) ==
    [length |-> new_length, array |-> [i \in 0..(new_length - 1) |-> Empty]]

\* a zeroed buffer of new_length slots, the first self.length slots copied
ComponentArray_resize(ca, new_length) ==
    [length |-> new_length,
     array  |-> [i \in 0..(new_length - 1) |->
                    IF i < ca.length THEN ca.array[i] ELSE Empty]]

\* mutant of ComponentArray_delete_index: the tag byte is not zeroed
ComponentArray_delete_index_keeps_tag(ca, index) == ca

\* (component_info.drop)(ptr); *ptr = 0
ComponentArray_delete_index(ca, index) ==
    [ca EXCEPT !.array[index] = Empty]

\* get_slice / get_slice_mut: the typed view has self.length elements
get_slice(ca) == [i \in 0..(ca.length - 1) |-> ca.array[i]]

\* ----------------------------------------------------------- ComponentMap
ComponentMap_new == [t \in {} |-> ComponentArray_new(0)]

ComponentMap_register(map, id, length) ==
    [t \in (DOMAIN map) \cup {id} |->
        IF t = id THEN ComponentArray_new(length) ELSE map[t]]

\* mutant of ComponentMap_resize: the buffers are not resized
ComponentMap_resize_skips(map, new_length) == map

ComponentMap_resize(map, new_length) ==
    [t \in DOMAIN map |-> ComponentArray_resize(map[t], new_length)]

\* mutant of ComponentMap_delete_index: the buffers are left as they are
ComponentMap_delete_index_skips(map, index) == map

ComponentMap_delete_index(map, index) ==
    [t \in DOMAIN map |-> ComponentArray_delete_index(map[t], index)]

\* mutant of Slot_assign: the slot written is the first of the buffer
Slot_assign_first(map, t, index, slot) == [map EXCEPT ![t].array[0] = slot]

\* array[entity.index] = slot, through the view get_array_mut returns
Slot_assign(map, t, index, slot) == [map EXCEPT ![t].array[index] = slot]

\* get_array / get_array_mut: None for a type that is not in the map
get_array(map, t) == IF t \in DOMAIN map THEN get_slice(map[t]) ELSE None

\* ------------------------------------------------- the counting destructor
\* drop_in_place::<Slot<C>> runs the value's destructor iff the slot is filled
DropSlot(slot) == IF is_filled(slot) THEN 1 ELSE 0

\* the destructor runs of ComponentMap::delete_index(index)
DropIndex(map, index) ==
    Cardinality({t \in DOMAIN map : DropSlot(map[t].array[index]) = 1})

\* the destructor runs of Drop for ComponentArray: delete_index on every slot
DropArray(ca) ==
    Cardinality({i \in 0..(ca.length - 1) : DropSlot(ca.array[i]) = 1})

\* dropping the map drops every array
DropMap(map) ==
    Cardinality({p \in (DOMAIN map) \X (0..MaxCap) :
                    /\ p[2] < map[p[1]].length
                    /\ DropSlot(map[p[1]].array[p[2]]) = 1})

\* -------------------------------------------------------------------- ECS
\* ECS::get_entity_count
get_entity_count(count) == count

\* mutant of is_valid: the generation is not compared
is_valid_ignores_generation(ents, h) ==
    IF h.scene_id # scene_id THEN FALSE
    ELSE ents[h.index].alive

\* mutant of is_valid: the store identity is not compared
is_valid_ignores_scene_id(ents, h) ==
    IF h.index \notin DOMAIN ents THEN FALSE
    ELSE ents[h.index] = Entity(TRUE, h.generation)

is_valid(ents, h) ==
    IF h.scene_id # scene_id THEN FALSE
    ELSE ents[h.index] = Entity(TRUE, h.generation)

\* self.entities[entity.index] panics when the index is out of bounds
is_valid_panics(ents, h) ==
    IF h.scene_id # scene_id THEN FALSE
    ELSE h.index \notin DOMAIN ents

\* the index allocate_entity stops at: the first record that is not alive
NoIndex == -1

\* mutant of first_dead: the scan runs from the last index down
first_dead_from_end(ents, cap) ==
    LET free == {i \in 0..(cap - 1) : ~ents[i].alive}
    IN  IF free = {} THEN NoIndex ELSE CHOOSE x \in free : \A y \in free : x >= y

\* mutant of first_dead: a full table yields its last index
first_dead_full_last(ents, cap) ==
    LET free == {i \in 0..(cap - 1) : ~ents[i].alive}
    IN  IF free = {} THEN cap - 1 ELSE Min(free)

first_dead(ents, cap) ==
    LET free == {i \in 0..(cap - 1) : ~ents[i].alive}
    IN  IF free = {} THEN NoIndex ELSE Min(free)

\* mutant of allocate_entity: the generation is not incremented
allocate_entity_keeps_generation(ents, index) ==
    [ents EXCEPT ![index] = Entity(TRUE, @.generation)]

\* mutant of allocate_entity: the generation is incremented twice
allocate_entity_twice(ents, index) ==
    [ents EXCEPT ![index] = Entity(TRUE, @.generation + 2)]

allocate_entity(ents, index) ==
    [ents EXCEPT ![index] = Entity(TRUE, @.generation + 1)]

GrowFn(p, cap) == IF p = "double" THEN cap * 2 ELSE cap

has_component(ents, map, h, t) ==
    IF ~is_valid(ents, h) THEN FALSE
    ELSE IF t \in DOMAIN map THEN is_filled(get_array(map, t)[h.index])
    ELSE FALSE

get_component(ents, map, h, t) ==
    IF ~is_valid(ents, h) THEN 0
    ELSE IF t \in DOMAIN map THEN as_option(get_array(map, t)[h.index])
    ELSE 0

\* ------------------------------------------------------------------ Query
\* ECS::get_index(index): the handle of the live entity at index, carrying
\* the record's current generation; None (NoEntity) where no entity lives
get_index(ents, index) ==
    IF index \in DOMAIN ents /\ ents[index].alive
    THEN EntityID(index, ents[index].generation)
    ELSE NoEntity

\* what a call of next returns: None, Some(item), or a panic of an unwrap
NoItem == [kind |-> "none"]

PanicItem == [kind |-> "panic"]

Item(id, vals) == [kind |-> "some", id |-> id, vals |-> vals]

\* <C as Query>::get_array: get_array::<C>().unwrap() panics on None
C_get_array_panics(map, t) == t \notin DOMAIN map

C_get_array(map, t) == get_array(map, t)

\* mutant of C_next: the cursor is advanced twice after an element is yielded
RECURSIVE C_next_skips_after_yield(_, _, _, _)
C_next_skips_after_yield(ents, cap, index, array) ==
    IF index < cap
    THEN LET id == get_index(ents, index)
             element == array[index]
         IN  IF is_filled(element)
             THEN [index |-> index + 2,
                   item  |-> IF id = NoEntity THEN PanicItem
                             ELSE Item(id, <<as_option(element)>>)]
             ELSE C_next_skips_after_yield(ents, cap, index + 1, array)
    ELSE [index |-> index, item |-> NoItem]

\* <C as Query>::next: the while loop over *index < ecs.capacity
RECURSIVE C_next(_, _, _, _)
C_next(ents, cap, index, array) ==
    IF index < cap
    THEN LET id == get_index(ents, index)
             element == array[index]
         IN  IF is_filled(element)
             THEN [index |-> index + 1,
                   item  |-> IF id = NoEntity THEN PanicItem
                             ELSE Item(id, <<as_option(element)>>)]
             ELSE C_next(ents, cap, index + 1, array)
    ELSE [index |-> index, item |-> NoItem]

\* mutant of C0_C1_get_array_panics: the two types are not compared
C0_C1_get_array_allows_same(map, t0, t1) ==
    t0 \notin DOMAIN map \/ t1 \notin DOMAIN map

\* <(C0, C1) as Query>::get_array: panic!() when the two types are the same
\* type, and the unwrap of get_array panics on None
C0_C1_get_array_panics(map, t0, t1) ==
    IF t0 = t1 THEN TRUE
    ELSE t0 \notin DOMAIN map \/ t1 \notin DOMAIN map

C0_C1_get_array(map, t0, t1) == <<get_array(map, t0), get_array(map, t1)>>

\* mutant of C0_C1_next: an element is yielded when either slot is filled
RECURSIVE C0_C1_next_either(_, _, _, _)
C0_C1_next_either(ents, cap, index, array) ==
    IF index < cap
    THEN LET id == get_index(ents, index)
             element_0 == array[1][index]
             element_1 == array[2][index]
         IN  IF is_filled(element_0) \/ is_filled(element_1)
             THEN [index |-> index + 1,
                   item  |-> IF id = NoEntity THEN PanicItem
                             ELSE Item(id, <<as_option(element_0), as_option(element_1)>>)]
             ELSE C0_C1_next_either(ents, cap, index + 1, array)
    ELSE [index |-> index, item |-> NoItem]

\* <(C0, C1) as Query>::next
RECURSIVE C0_C1_next(_, _, _, _)
C0_C1_next(ents, cap, index, array) ==
    IF index < cap
    THEN LET id == get_index(ents, index)
             element_0 == array[1][index]
             element_1 == array[2][index]
         IN  IF is_filled(element_0) /\ is_filled(element_1)
             THEN [index |-> index + 1,
                   item  |-> IF id = NoEntity THEN PanicItem
                             ELSE Item(id, <<as_option(element_0), as_option(element_1)>>)]
             ELSE C0_C1_next(ents, cap, index + 1, array)
    ELSE [index |-> index, item |-> NoItem]

\* QueryIter::new, after get_array has returned: the cursor starts at 0;
\* q is <<t>> for Q = C and <<t0, t1>> for Q = (C0, C1)
QueryIter_new(map, q) ==
    [q     |-> q,
     index |-> 0,
     array |-> IF Len(q) = 1 THEN C_get_array(map, q[1])
               ELSE C0_C1_get_array(map, q[1], q[2])]

\* Iterator::next for QueryIter: Q::next(self.ecs, &mut self.index, &self.array)
QueryIter_next(ents, cap, iter) ==
    IF Len(iter.q) = 1 THEN C_next(ents, cap, iter.index, iter.array)
    ELSE C0_C1_next(ents, cap, iter.index, iter.array)

\* the iterator run to exhaustion: the items yielded before the first None
\* (or the panic), and the cursor it stops at
RECURSIVE QueryIter_collect(_, _, _, _)
QueryIter_collect(ents, cap, iter, items) ==
    LET r == QueryIter_next(ents, cap, iter)
    IN  IF r.item.kind = "some"
        THEN QueryIter_collect(ents, cap, [iter EXCEPT !.index = r.index],
                               Append(items, r.item))
        ELSE [items |-> items, index |-> r.index, panicked |-> r.item.kind = "panic"]

\* the record of an operation that changed the store: its arguments, its
\* result and the handle it returned
Op(op, h, t, v, res, out) ==
    [op |-> op, h |-> h, ty |-> t, val |-> v, res |-> res, out |-> out]

\* the record of an operation that returned early or panicked
Returned(op, res) == Op(op, NoEntity, None, 0, res, NoEntity)

\* the bounds on what is explored
Cells(cap, types) == cap * (1 + Cardinality(types))

Explored(cap, types) == cap <= MaxCap /\ Cells(cap, types) <= MaxCells

Reuses(ents) ==
    Cardinality({p \in (DOMAIN ents) \X (2..(MaxReuse + 2)) : ents[p[1]].generation >= p[2]})

MayAllocate(ents, index) ==
    IF ents[index].generation = 0 THEN TRUE ELSE Reuses(ents) < MaxReuse

\* ECS::new(capacity) (an empty registry) and ECS::from_registry(registry, capacity)
Init ==
    /\ capacity \in 0..MaxCap
    /\ entity_count = 0
    /\ grow_fn = None
    /\ entities = VecResize(<<>>, capacity, Entity(FALSE, 0))
    /\ \E registry \in SUBSET Types :
          /\ Explored(capacity, registry)
          /\ components = [t \in registry |-> ComponentArray_new(capacity)]
    /\ status = "live"
    /\ issued = {}
    /\ destroyed = {}
    /\ constructed = 0
    /\ DROP_COUNT = 0
    /\ last = Op("new", NoEntity, None, 0, "ok", NoEntity)
    /\ probe = NoProbe

\* mutant of assert_new_capacity: a request for the current capacity passes
assert_new_capacity_allows_equal(new_capacity, cap) == new_capacity >= cap

\* assert!(new_capacity > self.capacity) of grow_capacity_to_size
assert_new_capacity(new_capacity, cap) == new_capacity > cap

\* ---------------------------------------------------------------- actions
Panic(op) ==
    /\ status' = "panicked"
    /\ last' = Returned(op, "panic")

\* ECS::register: ComponentMap::register inserts a new array of self.capacity
\* slots; an array the insert replaces is dropped.  A buffer of 0 slots is a
\* zero-sized alloc_zeroed: it returns a pointer, or null and the assert fails
register(t) ==
    /\ status = "live"
    /\ Explored(capacity, (DOMAIN components) \cup {t})
    /\ \/ /\ components' = ComponentMap_register(components, t, capacity)
          /\ DROP_COUNT' = DROP_COUNT +
                (IF t \in DOMAIN components THEN DropArray(components[t]) ELSE 0)
          /\ last' = Op("register", NoEntity, t, 0, "ok", NoEntity)
          /\ status' = status
       \/ /\ capacity = 0
          /\ Panic("register")
          /\ UNCHANGED <<components, DROP_COUNT>>
    /\ UNCHANGED <<probe, capacity, entity_count, grow_fn, entities,
                   issued, destroyed, constructed>>

set_grow_fn(grow) ==
    /\ status = "live"
    /\ grow_fn' = grow
    /\ last' = Op("set_grow_fn", NoEntity, grow, 0, "ok", NoEntity)
    /\ UNCHANGED <<probe, capacity, entity_count, entities, components, status,
                   issued, destroyed, constructed, DROP_COUNT>>

\* the body of grow_capacity_to_size after its assertion
Grown(new_capacity) ==
    /\ entities' = VecResize(entities, new_capacity, Entity(FALSE, 0))
    /\ components' = ComponentMap_resize(components, new_capacity)
    /\ capacity' = new_capacity

grow_capacity_to_size(new_capacity) ==
    /\ status = "live"
    /\ Explored(new_capacity, DOMAIN components)
    /\ IF assert_new_capacity(new_capacity, capacity)
       THEN /\ Grown(new_capacity)
            /\ status' = status
            /\ last' = Op("grow_capacity_to_size", NoEntity, None, new_capacity, "ok", NoEntity)
       ELSE /\ Panic("grow_capacity_to_size")
            /\ UNCHANGED <<capacity, entities, components>>
    /\ UNCHANGED <<probe, entity_count, grow_fn, issued, destroyed, constructed, DROP_COUNT>>

\* grow_fn.unwrap()(capacity), then grow_capacity_to_size
grow_capacity ==
    /\ status = "live"
    /\ IF grow_fn = None
       THEN /\ Panic("grow_capacity")
            /\ UNCHANGED <<capacity, entities, components>>
       ELSE LET new_capacity == GrowFn(grow_fn, capacity) IN
            /\ Explored(new_capacity, DOMAIN components)
            /\ IF assert_new_capacity(new_capacity, capacity)
               THEN /\ Grown(new_capacity)
                    /\ status' = status
                    /\ last' = Op("grow_capacity", NoEntity, None, new_capacity, "ok", NoEntity)
               ELSE /\ Panic("grow_capacity")
                    /\ UNCHANGED <<capacity, entities, components>>
    /\ UNCHANGED <<probe, entity_count, grow_fn, issued, destroyed, constructed, DROP_COUNT>>

\* create_entity: allocate_entity; on None either return None (no grow_fn)
\* or grow_capacity and allocate_entity again
create_entity ==
    /\ status = "live"
    /\ LET index == first_dead(entities, capacity) IN
       IF index # NoIndex
       THEN /\ MayAllocate(entities, index)
            /\ entities' = allocate_entity(entities, index)
            /\ entity_count' = entity_count + 1
            /\ issued' = issued \cup {EntityID(index, entities'[index].generation)}
            /\ last' = Op("create_entity", NoEntity, None, 0, "some",
                          EntityID(index, entities'[index].generation))
            /\ UNCHANGED <<capacity, components, status>>
       ELSE IF grow_fn = None
       THEN /\ last' = Returned("create_entity", "none")
            /\ UNCHANGED <<capacity, entity_count, entities, components, status, issued>>
       ELSE LET new_capacity == GrowFn(grow_fn, capacity) IN
            /\ Explored(new_capacity, DOMAIN components)
            /\ IF assert_new_capacity(new_capacity, capacity)
               THEN LET grown == VecResize(entities, new_capacity, Entity(FALSE, 0))
                        again == first_dead(grown, new_capacity)
                    IN  /\ components' = ComponentMap_resize(components, new_capacity)
                        /\ capacity' = new_capacity
                        /\ entities' = allocate_entity(grown, again)
                        /\ entity_count' = entity_count + 1
                        /\ issued' = issued \cup {EntityID(again, entities'[again].generation)}
                        /\ last' = Op("create_entity", NoEntity, None, 0, "grown",
                                      EntityID(again, entities'[again].generation))
                        /\ status' = status
               ELSE /\ Panic("create_entity")
                    /\ UNCHANGED <<capacity, entity_count, entities, components, issued>>
    /\ UNCHANGED <<probe, grow_fn, destroyed, constructed, DROP_COUNT>>

\* mutant of destroy_entity: the count is decremented for an invalid handle too
destroy_entity_counts_invalid(h) ==
    /\ status = "live"
    /\ IF is_valid_panics(entities, h)
       THEN /\ Panic("destroy_entity")
            /\ UNCHANGED <<entity_count, components, DROP_COUNT, entities>>
       ELSE IF is_valid(entities, h)
       THEN /\ entity_count' = entity_count - 1
            /\ components' = ComponentMap_delete_index(components, h.index)
            /\ DROP_COUNT' = DROP_COUNT + DropIndex(components, h.index)
            /\ entities' = [entities EXCEPT ![h.index].alive = FALSE]
            /\ last' = Op("destroy_entity", h, None, DropIndex(components, h.index), "ok", NoEntity)
            /\ status' = status
       ELSE /\ last' = Returned("destroy_entity", "invalid")
            /\ entity_count' = entity_count - 1
            /\ UNCHANGED <<components, DROP_COUNT, entities, status>>
    /\ destroyed' = destroyed \cup ({h} \cap issued)
    /\ UNCHANGED <<probe, capacity, grow_fn, issued, constructed>>

destroy_entity(h) ==
    /\ status = "live"
    /\ IF is_valid_panics(entities, h)
       THEN /\ Panic("destroy_entity")
            /\ UNCHANGED <<entity_count, components, DROP_COUNT, entities>>
       ELSE IF is_valid(entities, h)
       THEN /\ entity_count' = entity_count - 1
            /\ components' = ComponentMap_delete_index(components, h.index)
            /\ DROP_COUNT' = DROP_COUNT + DropIndex(components, h.index)
            /\ entities' = [entities EXCEPT ![h.index].alive = FALSE]
            /\ last' = Op("destroy_entity", h, None, DropIndex(components, h.index), "ok", NoEntity)
            /\ status' = status
       ELSE /\ last' = Returned("destroy_entity", "invalid")
            /\ UNCHANGED <<entity_count, components, DROP_COUNT, entities, status>>
    /\ destroyed' = destroyed \cup ({h} \cap issued)
    /\ UNCHANGED <<probe, capacity, grow_fn, issued, constructed>>

\* add_component takes the component by value: the caller constructs it, and
\* it is dropped when it is not stored (early return, unwinding of todo!())
add_component(h, t, v) ==
    /\ status = "live"
    /\ constructed < MaxAdds
    /\ constructed' = constructed + 1
    /\ IF is_valid_panics(entities, h)
       THEN /\ DROP_COUNT' = DROP_COUNT + 1
            /\ Panic("add_component")
            /\ UNCHANGED components
       ELSE IF ~is_valid(entities, h)
       THEN /\ DROP_COUNT' = DROP_COUNT + 1
            /\ last' = Returned("add_component", "invalid")
            /\ UNCHANGED <<components, status>>
       ELSE IF t \in DOMAIN components
       THEN /\ components' = Slot_assign(components, t, h.index, Filled(v))
            /\ DROP_COUNT' = DROP_COUNT + DropSlot(components[t].array[h.index])
            /\ last' = Op("add_component", h, t, v, "ok", NoEntity)
            /\ status' = status
       ELSE /\ DROP_COUNT' = DROP_COUNT + 1
            /\ Panic("add_component")
            /\ UNCHANGED components
    /\ UNCHANGED <<probe, capacity, entity_count, grow_fn, entities, issued, destroyed>>

\* mutant of remove_component: an unregistered type is silently ignored
remove_component_ignores_unregistered(h, t) ==
    /\ status = "live"
    /\ IF is_valid_panics(entities, h)
       THEN /\ Panic("remove_component")
            /\ UNCHANGED <<components, DROP_COUNT>>
       ELSE IF ~is_valid(entities, h)
       THEN /\ last' = Returned("remove_component", "invalid")
            /\ UNCHANGED <<components, DROP_COUNT, status>>
       ELSE IF t \in DOMAIN components
       THEN /\ components' = Slot_assign(components, t, h.index, Empty)
            /\ DROP_COUNT' = DROP_COUNT + DropSlot(components[t].array[h.index])
            /\ last' = Op("remove_component", h, t, 0, "ok", NoEntity)
            /\ status' = status
       ELSE /\ last' = Returned("remove_component", "none")
            /\ UNCHANGED <<components, DROP_COUNT, status>>
    /\ UNCHANGED <<probe, capacity, entity_count, grow_fn, entities, issued, destroyed, constructed>>

remove_component(h, t) ==
    /\ status = "live"
    /\ IF is_valid_panics(entities, h)
       THEN /\ Panic("remove_component")
            /\ UNCHANGED <<components, DROP_COUNT>>
       ELSE IF ~is_valid(entities, h)
       THEN /\ last' = Returned("remove_component", "invalid")
            /\ UNCHANGED <<components, DROP_COUNT, status>>
       ELSE IF t \in DOMAIN components
       THEN /\ components' = Slot_assign(components, t, h.index, Empty)
            /\ DROP_COUNT' = DROP_COUNT + DropSlot(components[t].array[h.index])
            /\ last' = Op("remove_component", h, t, 0, "ok", NoEntity)
            /\ status' = status
       ELSE /\ Panic("remove_component")
            /\ UNCHANGED <<components, DROP_COUNT>>
    /\ UNCHANGED <<probe, capacity, entity_count, grow_fn, entities, issued, destroyed, constructed>>

\* a call of get_component: the Option it returns, nothing is changed
get_component_call(h, t) ==
    /\ status = "live"
    /\ IF is_valid_panics(entities, h)
       THEN Panic("get_component")
       ELSE /\ last' = IF ~is_valid(entities, h)
                       THEN Returned("get_component", "invalid")
                       ELSE IF get_component(entities, components, h, t) = 0
                       THEN Returned("get_component", "none")
                       ELSE Returned("get_component", "some")
            /\ status' = status
    /\ UNCHANGED <<probe, capacity, entity_count, grow_fn, entities, components,
                   issued, destroyed, constructed, DROP_COUNT>>

\* get_component_mut, and a write of v through the reference it returns
get_component_mut(h, t, v) ==
    /\ status = "live"
    /\ IF is_valid_panics(entities, h)
       THEN /\ Panic("get_component_mut")
            /\ UNCHANGED components
       ELSE IF ~is_valid(entities, h)
       THEN /\ last' = Returned("get_component_mut", "invalid")
            /\ UNCHANGED <<components, status>>
       ELSE IF t \in DOMAIN components /\ is_filled(get_array(components, t)[h.index])
       THEN /\ components' = [components EXCEPT ![t].array[h.index].val = v]
            /\ last' = Op("get_component_mut", h, t, v, "some", NoEntity)
            /\ status' = status
       ELSE /\ last' = Returned("get_component_mut", "none")
            /\ UNCHANGED <<components, status>>
    /\ UNCHANGED <<probe, capacity, entity_count, grow_fn, entities,
                   issued, destroyed, constructed, DROP_COUNT>>

\* a query over one type: QueryIter::new, then next until it returns None
query_C(t) ==
    /\ status = "live"
    /\ IF C_get_array_panics(components, t)
       THEN Panic("query_C")
       ELSE LET run == QueryIter_collect(entities, capacity,
                                        QueryIter_new(components, <<t>>), <<>>)
            IN  IF run.panicked
                THEN Panic("query_C")
                ELSE /\ last' = Returned("query_C", "ok")
                     /\ status' = status
    /\ UNCHANGED <<probe, capacity, entity_count, grow_fn, entities, components,
                   issued, destroyed, constructed, DROP_COUNT>>

\* a query over a pair of types
query_C0_C1(t0, t1) ==
    /\ status = "live"
    /\ IF C0_C1_get_array_panics(components, t0, t1)
       THEN Panic("query_C0_C1")
       ELSE LET run == QueryIter_collect(entities, capacity,
                                        QueryIter_new(components, <<t0, t1>>), <<>>)
            IN  IF run.panicked
                THEN Panic("query_C0_C1")
                ELSE /\ last' = Returned("query_C0_C1", "ok")
                     /\ status' = status
    /\ UNCHANGED <<probe, capacity, entity_count, grow_fn, entities, components,
                   issued, destroyed, constructed, DROP_COUNT>>

\* drop(ecs), also while unwinding: every ComponentArray of the map is dropped
teardown ==
    /\ status \in {"live", "panicked"}
    /\ status' = "dropped"
    /\ DROP_COUNT' = DROP_COUNT + DropMap(components)
    /\ components' = ComponentMap_new
    /\ last' = Op("drop", NoEntity, None, DropMap(components), "ok", NoEntity)
    /\ UNCHANGED <<probe, capacity, entity_count, grow_fn, entities, issued, destroyed, constructed>>

Next ==
    \/ \E t \in Types : register(t)
    \/ \E grow \in Policies \cup {None} : set_grow_fn(grow)
    \/ \E n \in 0..MaxCap : grow_capacity_to_size(n)
    \/ grow_capacity
    \/ create_entity
    \/ \E h \in issued \cup OtherStore : destroy_entity(h)
    \/ \E h \in issued \cup OtherStore, t \in Types, v \in Values : add_component(h, t, v)
    \/ \E h \in issued \cup OtherStore, t \in Types : remove_component(h, t)
    \/ \E h \in issued \cup OtherStore, t \in Types : get_component_call(h, t)
    \/ \E h \in issued \cup OtherStore, t \in Types, v \in Values : get_component_mut(h, t, v)
    \/ \E t \in Types : query_C(t)
    \/ \E t0 \in Types, t1 \in Types : query_C0_C1(t0, t1)
    \/ teardown

Spec == Init /\ [][Next]_vars

\* ------------------------------------------- the layout of component slots
\* ComponentInfo::new for a component type of layout c
Probe_new(c) ==
    /\ probe.pc = "none"
    /\ probe' = [pc |-> "info", component |-> c, info |-> ComponentInfo_new(c),
                 index |-> 0, ptr |-> 0, element |-> 0]
    /\ UNCHANGED ecs_vars

\* the address of slot index as delete_index computes it and as the typed
\* view of get_slice does
Probe_slot(index) ==
    /\ probe.pc = "info"
    /\ probe' = [probe EXCEPT !.index = index,
                              !.ptr = delete_index_ptr(probe.info, index),
                              !.element = get_slice_ptr(probe.info, index)]
    /\ UNCHANGED ecs_vars

\* an empty store of capacity 0, and no ComponentInfo yet
StrideInit ==
    /\ Init
    /\ capacity = 0
    /\ components = ComponentMap_new

StrideNext ==
    \/ \E c \in ComponentLayouts : Probe_new(c)
    \/ \E index \in 0..MaxIndex : Probe_slot(index)

StrideSpec == StrideInit /\ [][StrideNext]_vars

\* ----------------------------------------------------------------- claims
Created == last.op = "create_entity" /\ last.res \in {"some", "grown"}

AllAlive(ents) == \A i \in DOMAIN ents : ents[i].alive

FilledCount(map) ==
    Cardinality({p \in (DOMAIN map) \X (0..MaxCap) :
                    /\ p[2] \in DOMAIN map[p[1]].array
                    /\ map[p[1]].array[p[2]].tag # 0})

\* C1: the handle create_entity returned is valid right after the call; a
\* handle destroy_entity was called with is invalid right after the call and
\* in every later state, also when its index is allocated again.
C1_HandleValidity ==
    /\ Created => is_valid(entities, last.out)
    /\ \A h \in destroyed : ~is_valid(entities, h)

\* C1 witness: a destroyed handle whose index holds a new live entity
C1_Witness ==
    \E h \in destroyed :
        /\ entities[h.index].alive
        /\ entities[h.index].generation > h.generation

\* C2: a record's generation rises by exactly one in a step that allocates
\* its index (the first allocation included) and is unchanged by every other
\* step; a live record has generation >= 1; a handle issued for an index has
\* a generation above that of every handle issued for that index before.
C2_Generation ==
    /\ [](\A i \in DOMAIN entities : entities[i].alive => entities[i].generation >= 1)
    /\ [][ /\ DOMAIN entities \subseteq DOMAIN entities'
           /\ \A i \in DOMAIN entities' :
                LET before == IF i \in DOMAIN entities THEN entities[i] ELSE Entity(FALSE, 0)
                    allocated == /\ last'.op = "create_entity"
                                 /\ last'.res \in {"some", "grown"}
                                 /\ last'.out.index = i
                IN  IF allocated
                    THEN /\ ~before.alive
                         /\ entities'[i] = Entity(TRUE, before.generation + 1)
                         /\ last'.out.generation = before.generation + 1
                    ELSE entities'[i].generation = before.generation
           /\ \A h \in issued' \ issued : \A g \in issued :
                g.index = h.index => h.generation > g.generation
         ]_vars

\* C2 witness: an index was allocated a second time
C2_Witness == Created /\ last.out.generation = 2

\* C3: on a valid handle and a registered type, add_component(h, v) makes
\* has_component true and get_component v; a write through
\* get_component_mut is what get_component returns; remove_component makes
\* has_component false and get_component None; each changes no other slot
\* (a step that leaves the entity table and the buffers as they were changes
\* none).
C3_ComponentOps ==
    /\ [](last.op = "add_component" /\ last.res = "ok" =>
            /\ has_component(entities, components, last.h, last.ty)
            /\ get_component(entities, components, last.h, last.ty) = last.val)
    /\ [](last.op = "get_component_mut" /\ last.res = "some" =>
            /\ has_component(entities, components, last.h, last.ty)
            /\ get_component(entities, components, last.h, last.ty) = last.val)
    /\ [](last.op = "remove_component" /\ last.res = "ok" =>
            /\ ~has_component(entities, components, last.h, last.ty)
            /\ get_component(entities, components, last.h, last.ty) = 0)
    /\ [][ \/ UNCHANGED <<entities, components>>
           \/ last'.op \notin {"add_component", "get_component_mut", "remove_component"}
           \/ \A h \in issued, t \in Types :
                (/\ is_valid(entities, h) /\ t \in DOMAIN components
                 /\ (h # last'.h \/ t # last'.ty))
                => /\ has_component(entities', components', h, t)
                        = has_component(entities, components, h, t)
                   /\ get_component(entities', components', h, t)
                        = get_component(entities, components, h, t)
         ]_vars

\* C3 witness: a component was written through get_component_mut while a
\* second component, of another entity or type, is stored
C3_Witness ==
    /\ last.op = "get_component_mut" /\ last.res = "some"
    /\ \E h \in issued, t \in Types :
        /\ (h # last.h \/ t # last.ty)
        /\ has_component(entities, components, h, t)

\* C4: every component value constructed is either still stored in a slot
\* or has run its destructor exactly once: the destructor runs equal the
\* values constructed minus the filled slots, and after the store is dropped
\* they equal the values constructed; growth runs no destructor.
C4_DropOnce ==
    /\ [](status # "dropped" => DROP_COUNT + FilledCount(components) = constructed)
    /\ [](status = "dropped" => DROP_COUNT = constructed)
    /\ [][ (\/ last'.op \in {"grow_capacity", "grow_capacity_to_size"}
            \/ last'.op = "create_entity")
           => DROP_COUNT' = DROP_COUNT ]_vars

\* C4 witness: the store was dropped while a slot was filled, after another
\* value had run its destructor earlier
C4_Witness ==
    /\ last.op = "drop" /\ last.val >= 1
    /\ DROP_COUNT > last.val

\* C5: grow_capacity_to_size(n) with n above the capacity leaves every
\* entity record and every slot below the old capacity as it was, so that
\* every handle is valid and has its components exactly as before; every
\* index from the old capacity to n - 1 has a dead record of generation 0
\* and an empty slot in every registered type.
C5_GrowPreserves ==
    [][ (last'.op = "grow_capacity_to_size" /\ last'.res = "ok") =>
          /\ capacity' = last'.val /\ capacity' > capacity
          /\ DOMAIN components' = DOMAIN components
          /\ \A i \in 0..(capacity - 1) :
                /\ entities'[i] = entities[i]
                /\ \A t \in DOMAIN components :
                      components'[t].array[i] = components[t].array[i]
          /\ \A i \in capacity..(capacity' - 1) :
                /\ entities'[i] = Entity(FALSE, 0)
                /\ \A t \in DOMAIN components : components'[t].array[i] = Empty
          /\ \A h \in issued :
                /\ is_valid(entities', h) = is_valid(entities, h)
                /\ \A t \in Types :
                      get_component(entities', components', h, t)
                        = get_component(entities, components, h, t)
      ]_vars

\* C5 witness: a store that holds a component has just grown
C5_Witness ==
    /\ last.op = "grow_capacity_to_size" /\ last.res = "ok"
    /\ \E h \in issued, t \in Types : has_component(entities, components, h, t)

\* C6: the entity table and the buffer of every registered type have exactly
\* capacity elements in every state, and the capacity never decreases.
C6_UniformCapacity ==
    /\ [](/\ VecLen(entities) = capacity
          /\ \A t \in DOMAIN components :
                /\ components[t].length = capacity
                /\ VecLen(components[t].array) = capacity)
    /\ [][capacity' >= capacity]_vars

\* C6 witness: a type was registered after the store had grown, next to a
\* buffer that was resized
C6_Witness ==
    /\ last.op = "register" /\ last.res = "ok"
    /\ DOMAIN components = Types
    /\ capacity = 2
    /\ FilledCount(components) >= 1

\* C7: create_entity on a store without growth policy whose records are all
\* alive returns None, does not panic, and changes neither the capacity, the
\* entity count, an entity record nor a component slot.
C7_FullNoPolicy ==
    [][ (/\ last'.op = "create_entity"
         /\ grow_fn = None
         /\ AllAlive(entities))
        => /\ last'.res = "none"
           /\ status' = "live"
           /\ UNCHANGED <<capacity, entity_count, entities, components>>
      ]_vars

\* C7 witness: create_entity has just returned None on a full store
C7_Witness ==
    /\ last.op = "create_entity" /\ last.res = "none"
    /\ capacity >= 1
    /\ FilledCount(components) >= 1

\* C8 as stated: with a growth policy installed and every record alive,
\* create_entity does not fail; it grows to policy(capacity) and returns a
\* valid handle.
C8_Original ==
    [][ (/\ last'.op = "create_entity"
         /\ grow_fn # None
         /\ AllAlive(entities))
        => /\ last'.res = "grown"
           /\ status' = "live"
           /\ capacity' = GrowFn(grow_fn, capacity)
           /\ is_valid(entities', last'.out)
      ]_vars

\* C8 amended: with a growth policy installed and every record alive,
\* create_entity grows to policy(capacity), keeps every entity record and
\* slot, and returns a valid handle at the first new index when
\* policy(capacity) > capacity; otherwise it panics (the assertion of
\* grow_capacity_to_size) and the store is unchanged.
C8_GrowOnFull ==
    [][ (/\ last'.op = "create_entity"
         /\ grow_fn # None
         /\ AllAlive(entities))
        => IF GrowFn(grow_fn, capacity) > capacity
           THEN /\ last'.res = "grown"
                /\ status' = "live"
                /\ capacity' = GrowFn(grow_fn, capacity)
                /\ is_valid(entities', last'.out)
                /\ last'.out.index = capacity
                /\ entity_count' = entity_count + 1
                /\ DOMAIN components' = DOMAIN components
                /\ \A i \in 0..(capacity - 1) :
                      /\ entities'[i] = entities[i]
                      /\ \A t \in DOMAIN components :
                            components'[t].array[i] = components[t].array[i]
           ELSE /\ last'.res = "panic"
                /\ status' = "panicked"
                /\ UNCHANGED <<capacity, entity_count, entities, components>>
      ]_vars

\* C8 witness: create_entity has just grown a full store that holds a component
C8_Witness ==
    /\ last.op = "create_entity" /\ last.res = "grown"
    /\ FilledCount(components) >= 1

\* C9: a create_entity that succeeds without growing returns the lowest
\* index whose record was not alive, with its generation plus one, and
\* changes only that record; at capacity 4 without growth policy a create on
\* four live entities fails, and the create after destroying the entity at
\* index 2 returns index 2 with the destroyed handle's generation plus one.
C9_LowestFree ==
    [][ /\ (last'.op = "create_entity" /\ last'.res = "some") =>
            LET index == last'.out.index IN
            /\ index \in DOMAIN entities
            /\ ~entities[index].alive
            /\ \A j \in 0..(index - 1) : entities[j].alive
            /\ last'.out = EntityID(index, entities[index].generation + 1)
            /\ entities'[index] = Entity(TRUE, entities[index].generation + 1)
            /\ \A j \in DOMAIN entities : j # index => entities'[j] = entities[j]
            /\ DOMAIN entities' = DOMAIN entities
            /\ UNCHANGED <<capacity, components, grow_fn>>
        /\ (/\ last'.op = "create_entity"
            /\ capacity = 4 /\ grow_fn = None /\ entity_count = 4)
           => last'.res = "none"
        /\ (/\ last'.op = "create_entity"
            /\ capacity = 4 /\ grow_fn = None
            /\ last.op = "destroy_entity" /\ last.res = "ok" /\ last.h.index = 2
            /\ entity_count = 3)
           => last'.out = EntityID(2, last.h.generation + 1)
      ]_vars

\* C9 witness: at capacity 4 without growth policy, index 2 was allocated a
\* second time and all four entities are alive
C9_Witness ==
    /\ capacity = 4 /\ grow_fn = None
    /\ Created /\ last.out = EntityID(2, 2)
    /\ AllAlive(entities)

\* C10: with a handle that destroy_entity was called with before (it is
\* destroyed, or stale when its index was allocated again), get_component
\* returns None and has_component false, and destroy_entity, add_component,
\* remove_component and get_component_mut neither panic nor change an
\* entity record, the entity count, the capacity or a component slot: a
\* step of one of them either leaves the store untouched or is the step of
\* no destroyed handle (a step that succeeds records the handle it acted on).
C10_InvalidHandle ==
    /\ [](\A h \in destroyed, t \in Types :
            /\ ~has_component(entities, components, h, t)
            /\ get_component(entities, components, h, t) = 0)
    /\ [][ LET untouched == /\ status' = "live"
                            /\ last'.res = "invalid"
                            /\ UNCHANGED <<capacity, entity_count, entities, components>>
           IN  \/ untouched
               \/ /\ last'.res \in {"ok", "some"}
                  /\ last'.h \notin destroyed
               \/ /\ last'.op = "destroy_entity"
                  /\ \A h \in destroyed : ~destroy_entity(h)
               \/ /\ last'.op = "add_component"
                  /\ \A h \in destroyed, t \in Types, v \in Values :
                        ~add_component(h, t, v)
               \/ /\ last'.op = "remove_component"
                  /\ \A h \in destroyed, t \in Types : ~remove_component(h, t)
               \/ /\ last'.op = "get_component_mut"
                  /\ \A h \in destroyed, t \in Types, v \in Values :
                        ~get_component_mut(h, t, v)
               \/ last'.op \notin {"destroy_entity", "add_component",
                                   "remove_component", "get_component_mut"}
         ]_vars

\* C10 witness: an operation has returned early for an invalid handle while
\* the only handle ever destroyed is stale: its index holds a new entity
\* that has a component
C10_Witness ==
    /\ last.op \in {"destroy_entity", "add_component", "remove_component"}
    /\ last.res = "invalid"
    /\ Cardinality(destroyed) = 1
    /\ \A h \in destroyed :
        /\ entities[h.index].alive
        /\ \E t \in DOMAIN components : components[t].array[h.index].tag # 0

\* C11: a handle issued by another store is never valid in this store, also
\* when this store has a live record with the handle's index and generation
\* and when the handle's index is beyond this store's capacity: is_valid
\* returns false and does not panic, has_component is false and
\* get_component None, and a step of destroy_entity, add_component,
\* remove_component or get_component_mut with it leaves the entity table,
\* the entity count, the capacity and every component slot as they were (a
\* step that succeeds records the handle it acted on).
C11_ForeignHandle ==
    /\ [](\A h \in OtherStore :
            /\ ~is_valid(entities, h)
            /\ ~is_valid_panics(entities, h)
            /\ \A t \in Types :
                /\ ~has_component(entities, components, h, t)
                /\ get_component(entities, components, h, t) = 0)
    /\ [][ LET untouched == /\ status' = "live"
                            /\ last'.res = "invalid"
                            /\ UNCHANGED <<capacity, entity_count, entities, components>>
           IN  \/ untouched
               \/ /\ last'.res \in {"ok", "some"}
                  /\ last'.h \notin OtherStore
               \/ /\ last'.op = "destroy_entity"
                  /\ \A h \in OtherStore : ~destroy_entity(h)
               \/ /\ last'.op = "add_component"
                  /\ \A h \in OtherStore, t \in Types, v \in Values :
                        ~add_component(h, t, v)
               \/ /\ last'.op = "remove_component"
                  /\ \A h \in OtherStore, t \in Types : ~remove_component(h, t)
               \/ /\ last'.op = "get_component_mut"
                  /\ \A h \in OtherStore, t \in Types, v \in Values :
                        ~get_component_mut(h, t, v)
               \/ last'.op \notin {"destroy_entity", "add_component",
                                   "remove_component", "get_component_mut"}
         ]_vars

\* C11 witness: destroy_entity or remove_component has returned early as
\* for an invalid handle while every handle this store has issued is valid,
\* so the handle was one of the other store; the record at index 0 is live
\* with generation 1, as the other store's handle says, and holds a component
C11_Witness ==
    /\ last.op \in {"destroy_entity", "remove_component"}
    /\ last.res = "invalid"
    /\ issued # {}
    /\ \A h \in issued : is_valid(entities, h)
    /\ \E h \in OtherStore :
        /\ h.index \in DOMAIN entities
        /\ entities[h.index] = Entity(TRUE, h.generation)
        /\ \E t \in DOMAIN components : components[t].array[h.index].tag # 0

\* C12: grow_capacity_to_size(n) with n at most the capacity panics, and in
\* the state the panic leaves the capacity, the entity table, the entity
\* count and every component buffer are as they were before the call.
C12_GrowAssert ==
    [][ last'.op = "grow_capacity_to_size" =>
          \A n \in 0..capacity :
              grow_capacity_to_size(n) =>
                  /\ status' = "panicked"
                  /\ last'.res = "panic"
                  /\ UNCHANGED <<capacity, entity_count, entities, components, DROP_COUNT>>
      ]_vars

\* C12 witness: grow_capacity_to_size has panicked on a store that holds a
\* live entity with a component
C12_Witness ==
    /\ last.op = "grow_capacity_to_size" /\ last.res = "panic"
    /\ status = "panicked"
    /\ entity_count >= 1
    /\ FilledCount(components) >= 1

\* C13 as stated: on a valid handle and a type that is not registered,
\* add_component, remove_component and get_component each panic.
C13_Original ==
    [][ \A h \in issued, t \in Types \ DOMAIN components :
          is_valid(entities, h) =>
            /\ (last'.op = "add_component" /\ \E v \in Values : add_component(h, t, v))
                  => status' = "panicked"
            /\ (last'.op = "remove_component" /\ remove_component(h, t))
                  => status' = "panicked"
            /\ (last'.op = "get_component" /\ get_component_call(h, t))
                  => status' = "panicked"
      ]_vars

\* C13 amended: on a valid handle and a type that is not registered,
\* add_component and remove_component panic and leave the store as it was
\* (the component passed to add_component is dropped); get_component does
\* not panic: it returns None, as for a registered type with an empty slot,
\* and has_component returns false (a step that succeeds records the type it
\* acted on, a registered one).
C13_Unregistered ==
    /\ [](\A h \in issued, t \in Types \ DOMAIN components :
            is_valid(entities, h) =>
                /\ get_component(entities, components, h, t) = 0
                /\ ~has_component(entities, components, h, t))
    /\ [][ (/\ last'.op \in {"add_component", "remove_component", "get_component"}
            /\ ~(last'.res = "ok" /\ last'.ty \in DOMAIN components)) =>
           \A h \in issued, t \in Types \ DOMAIN components :
             is_valid(entities, h) =>
               /\ (last'.op = "add_component" /\ \E v \in Values : add_component(h, t, v))
                     => /\ status' = "panicked"
                        /\ DROP_COUNT' = DROP_COUNT + 1
                        /\ UNCHANGED <<capacity, entity_count, entities, components>>
               /\ (last'.op = "remove_component" /\ remove_component(h, t))
                     => /\ status' = "panicked"
                        /\ UNCHANGED <<capacity, entity_count, entities, components, DROP_COUNT>>
               /\ (last'.op = "get_component" /\ get_component_call(h, t))
                     => /\ status' = "live"
                        /\ last'.res = "none"
                        /\ UNCHANGED <<capacity, entity_count, entities, components, DROP_COUNT>>
         ]_vars

\* C13 witness: remove_component has panicked on a store that holds a
\* component of the registered type, for a live entity
C13_Witness ==
    /\ last.op = "remove_component" /\ last.res = "panic"
    /\ DOMAIN components # Types
    /\ FilledCount(components) >= 1

\* C14: a register call for a type that is already registered is a no-op:
\* the buffer of that type holds the same slots with the same values after
\* the call, and no destructor runs.
C14_ReRegisterNoOp ==
    [][ (/\ last'.op = "register" /\ last'.res = "ok"
         /\ last'.ty \in DOMAIN components)
        => /\ components'[last'.ty] = components[last'.ty]
           /\ DROP_COUNT' = DROP_COUNT
      ]_vars

\* the items a query over the types q yields when run to exhaustion
Yielded(q) ==
    QueryIter_collect(entities, capacity, QueryIter_new(components, q), <<>>)

\* C15: in every reachable state, a query over a registered type t, run to
\* exhaustion, yields exactly the valid entities that have t, each once, in
\* strictly ascending index order, each with its stored value and a handle
\* is_valid accepts; the cursor starts at 0, no unwrap panics and the run
\* ends with the cursor at the capacity.
C15_QueryOne ==
    \A t \in DOMAIN components :
        LET run == Yielded(<<t>>)
            out == run.items
        IN  /\ QueryIter_new(components, <<t>>).index = 0
            /\ ~run.panicked
            /\ run.index = capacity
            /\ {out[k].id : k \in DOMAIN out}
                 = {h \in issued : has_component(entities, components, h, t)}
            /\ \A k \in DOMAIN out :
                /\ is_valid(entities, out[k].id)
                /\ out[k].vals = <<get_component(entities, components, out[k].id, t)>>
            /\ \A k \in DOMAIN out, l \in DOMAIN out :
                k < l => out[k].id.index < out[l].id.index

\* C15 witness: a query has run to exhaustion on a store where the query
\* over a type yields the entities at index 0 and index 2 and passes over
\* the live entity at index 1, which has no component of the type
C15_Witness ==
    /\ last.op = "query_C" /\ last.res = "ok"
    /\ capacity = 3
    /\ entities[1].alive
    /\ \E t \in DOMAIN components :
        LET out == Yielded(<<t>>).items
        IN  /\ Len(out) = 2
            /\ out[1].id.index = 0 /\ out[2].id.index = 2

C17_DuplicateType ==
    /\ [](\A t \in Types : C0_C1_get_array_panics(components, t, t))
    /\ [][ last'.op = "query_C0_C1" =>
             \A t \in Types :
                 query_C0_C1(t, t) =>
                     /\ status' = "panicked"
                     /\ last'.res = "panic"
                     /\ UNCHANGED <<capacity, entity_count, entities, components, DROP_COUNT>>
         ]_vars

\* C17 witness: a query over a pair of types has panicked on a store in
\* which both types are registered and an entity has both components, so
\* the pair was the same type twice
C17_Witness ==
    /\ last.op = "query_C0_C1" /\ last.res = "panic"
    /\ DOMAIN components = Types
    /\ \E h \in issued :
        /\ has_component(entities, components, h, "A")
        /\ has_component(entities, components, h, "B")

AliveCount(ents) == Cardinality({i \in DOMAIN ents : ents[i].alive})

\* C18: in every reachable state get_entity_count() is the number of alive
\* records of the entity table; it rises by one in a create_entity that
\* returns a handle (with or without growth), falls by one in a
\* destroy_entity of a valid handle, and is unchanged by every other step: a
\* create_entity that fails, a destroy_entity of an invalid handle, growth
\* and the component operations.
C18_EntityCount ==
    /\ [](get_entity_count(entity_count) = AliveCount(entities))
    /\ [][ get_entity_count(entity_count') =
             IF last'.op = "create_entity" /\ last'.res \in {"some", "grown"}
             THEN get_entity_count(entity_count) + 1
             ELSE IF last'.op = "destroy_entity" /\ last'.res = "ok"
             THEN get_entity_count(entity_count) - 1
             ELSE get_entity_count(entity_count)
         ]_vars

\* C18 witness: destroy_entity has returned early for an invalid handle
\* after an entity was destroyed, while another entity is alive
C18_Witness ==
    /\ last.op = "destroy_entity" /\ last.res = "invalid"
    /\ destroyed # {}
    /\ \A h \in destroyed : ~entities[h.index].alive
    /\ entity_count = 1

\* C19: in every reachable state a slot is filled only at an index whose
\* entity record is alive; a destroy_entity of a valid handle leaves the
\* slot at the handle's index empty in the buffer of every registered type
\* and the record dead; the entity create_entity returns, also at an index
\* used before, has no component of any type.
C19_PresentOnlyAlive ==
    /\ [](\A t \in DOMAIN components, i \in DOMAIN entities :
            is_filled(components[t].array[i]) => entities[i].alive)
    /\ [](Created =>
            \A t \in Types :
                /\ ~has_component(entities, components, last.out, t)
                /\ t \in DOMAIN components
                     => components[t].array[last.out.index] = Empty)
    /\ [][ (last'.op = "destroy_entity" /\ last'.res = "ok") =>
             /\ ~entities'[last'.h.index].alive
             /\ \A t \in DOMAIN components' :
                   components'[t].array[last'.h.index] = Empty
         ]_vars

\* C19 witness: destroy_entity has destroyed an entity that held a
\* component (the destructor ran) and whose index had been used before
C19_Witness ==
    /\ last.op = "destroy_entity" /\ last.res = "ok"
    /\ last.val >= 1
    /\ last.h.generation = 2

\* C20: for every size and alignment of a component type, the stride
\* ComponentInfo::new computes from the layout of the slot is at least one
\* tag byte plus the component size, is a multiple of the alignment and is
\* the size of the slot type, so that the address delete_index computes for
\* slot N (N * stride) is aligned, is the address of element N of the typed
\* view, and the slot ends where slot N + 1 begins or before.
C20_Stride ==
    probe.pc = "info" =>
        LET info == probe.info
            c == probe.component
        IN  /\ info.stride >= 1 + c.size
            /\ info.stride % info.layout.align = 0
            /\ info.stride = info.layout.size
            /\ probe.ptr = probe.index * info.stride
            /\ probe.ptr % info.layout.align = 0
            /\ probe.ptr = probe.element
            /\ probe.ptr + info.layout.size <= (probe.index + 1) * info.stride

\* C20 witness: the address of slot 3 was computed for a component type of
\* size 8 and alignment 8, whose slot has 7 bytes of padding after the tag
C20_Witness ==
    /\ probe.pc = "info"
    /\ probe.component = [size |-> 8, align |-> 8]
    /\ probe.info.stride = 16
    /\ probe.index = 3 /\ probe.ptr = 48

====
